---- MODULE Spec2Model ----
(***************************************************************************)
(* A model of the jbrowse-cli "create" command                             *)
(* (packages/jbrowse-cli/src/commands/create.ts) and of the object         *)
(* utilities deepUpdate, fillTemplate and clone/mixin.                     *)
(*                                                                         *)
(* JavaScript strings that the code inspects (tag names, URLs) are         *)
(* sequences of tokens, so that startsWith and string equality are         *)
(* computed and not assumed.                                               *)
(***************************************************************************)
EXTENDS Integers, Sequences, FiniteSets, TLC

(***************************************************************************)
(* Bounds of the model.                                                    *)
(***************************************************************************)
\* the longest release listing the API answers with
MaxListing == 2
\* the largest number of entries in a downloaded archive
MaxEntries == 2

(***************************************************************************)
(* Exit codes.                                                             *)
(***************************************************************************)
\* this.exit() with no argument
ExitOk == 0
\* an error that reaches oclif's handler without an oclif exit code
ExitUnhandled == 1
\* this.error(...) with no { exit } option
ExitDefault == 2
ExitNonEmpty == 10
ExitNoDirectory == 20
ExitNoVersion == 40
ExitFetchFailed == 50

VARIABLES
    \* ---- Create: the command line (locals of run)
    hasPath, force, listVersions, url, tag,
    \* ---- Create: the file system: the state of the install path
    dir,
    \* ---- Create: control
    pc, err, exit,
    \* ---- Create: what the command observed and did
    mkdirRes, readdirRes, requests, fetchFailed, listing, locationUrl,
    response, log,
    \* ---- Create: the unzip stream and the per-entry handlers
    stream, entries, est,
    \* ---- deepUpdate: a (updated in place), b, a as it was, the outcome
    da, db, da0, dres,
    \* ---- fillTemplate: the template, fillWith, the outcome
    ft, fw, fres,
    \* ---- clone: the heap, the source, the outcome, the source as it was
    \* unfolded, the side mutated since and how often
    ch, csrc, cres, csrc0, cmut

createVars == <<hasPath, force, listVersions, url, tag, dir, pc, err, exit,
                mkdirRes, readdirRes, requests, fetchFailed, listing,
                locationUrl, response, log, stream, entries, est>>

deepVars == <<da, db, da0, dres>>

fillVars == <<ft, fw, fres>>

cloneVars == <<ch, csrc, cres, csrc0, cmut>>

utilVars == <<deepVars, fillVars, cloneVars>>

vars == <<createVars, utilVars>>

(***************************************************************************)
(* Strings and flags.                                                      *)
(***************************************************************************)
StartsWith(s, p) == Len(s) >= Len(p) /\ SubSeq(s, 1, Len(p)) = p

WebPrefix == <<"@gmod/jbrowse-web">>

TagNames ==
    { <<"@gmod/jbrowse-web", "@1">>,
      <<"@gmod/jbrowse-web", "@2">>,
      <<"@gmod/jbrowse-desktop", "@1">> }

\* an optional string flag: absent, or given with a value (possibly '')
NoFlag == [given |-> FALSE, val |-> <<>>]
Flag(v) == [given |-> TRUE, val |-> v]
\* JavaScript truthiness of an optional string
Truthy(f) == f.given /\ f.val # <<>>

UrlFlags == {NoFlag, Flag(<<>>), Flag(<<"http://host/jb2.zip">>)}
TagFlags == {NoFlag, Flag(<<>>)} \cup {Flag(t) : t \in TagNames}

ApiUrl == <<"https://api.github.com/repos/GMOD/jbrowse-components/releases">>

(***************************************************************************)
(* The release listing: interface GithubRelease.                          *)
(***************************************************************************)
PosName == <<"1", "2", "3", "4", "5">>

RawRelease == [tag_name : TagNames, prerelease : BOOLEAN]

GithubRelease(r, i) ==
    [tag_name |-> r.tag_name, prerelease |-> r.prerelease,
     assets |-> << [browser_download_url |-> <<"asset", PosName[i]>>] >>]

\* every listing the API may answer with, each release with its one asset
Listings ==
    UNION { { [i \in 1..k |-> GithubRelease(l[i], i)] : l \in [1..k -> RawRelease] } :
            k \in 0..MaxListing }

Tags(list) == [i \in 1..Len(list) |-> list[i].tag_name]

\* fetchGithubVersions with the pre-release filter left out
FetchGithubVersions_KeepsPrereleases(jb2releases) ==
    LET versions == SelectSeq(jb2releases, LAMBDA r : StartsWith(r.tag_name, WebPrefix))
    IN  IF Len(versions) = 0 THEN jb2releases ELSE versions

\* fetchGithubVersions, the part after the response: lines 158-168
FetchGithubVersions(jb2releases) ==
    LET versions == SelectSeq(jb2releases, LAMBDA r : StartsWith(r.tag_name, WebPrefix))
        nonprereleases == SelectSeq(versions, LAMBDA r : r.prerelease = FALSE)
    IN  IF Len(nonprereleases) = 0 THEN jb2releases ELSE nonprereleases

\* Array.prototype.find: the first element with this tag name, as a
\* sequence of at most one element
Find(list, t) ==
    LET hits == {i \in 1..Len(list) : list[i].tag_name = t}
    IN  IF hits = {} THEN <<>>
        ELSE << list[CHOOSE i \in hits : \A j \in hits : i <= j] >>

\* getTagOrLatest, the part after fetchGithubVersions: lines 173-182
GetTagOrLatest(releases, t) ==
    LET versions == IF Truthy(t) THEN Find(releases, t.val)
                    ELSE IF Len(releases) > 0 THEN << releases[1] >> ELSE <<>>
    IN  IF versions # <<>>
        THEN [ok |-> TRUE, url |-> versions[1].assets[1].browser_download_url,
              exit |-> ExitOk]
        ELSE [ok |-> FALSE, url |-> <<>>, exit |-> ExitNoVersion]

\* checkPath without the test of allFiles.length
CheckPathExit_NoEmptyCheck(readOk, nFiles) ==
    IF ~readOk THEN {ExitNoDirectory} ELSE {}

\* checkPath with its two exit codes exchanged
CheckPathExit_CodesSwapped(readOk, nFiles) ==
    IF ~readOk THEN {ExitNonEmpty}
    ELSE IF nFiles > 0 THEN {ExitNoDirectory}
    ELSE {}

\* checkPath: the exit code it errors with, {} when it returns
CheckPathExit(readOk, nFiles) ==
    IF ~readOk THEN {ExitNoDirectory}
    ELSE IF nFiles > 0 THEN {ExitNonEmpty}
    ELSE {}

ZipTypes == {"application/zip", "application/octet-stream"}
ContentTypes == ZipTypes \cup {"text/html"}

\* the checks of the archive response with the content type checked for
\* every download URL
ResponseExit_AlwaysChecksType(ok, urlFlag, ctype) ==
    IF ~ok THEN {ExitFetchFailed}
    ELSE IF ctype # "application/zip" /\ ctype # "application/octet-stream"
         THEN {ExitDefault}
    ELSE {}

\* run, lines 96-106: the exit code the checks of the archive response
\* error with, {} when both pass
ResponseExit(ok, urlFlag, ctype) ==
    IF ~ok THEN {ExitFetchFailed}
    ELSE IF Truthy(urlFlag) /\ ctype # "application/zip"
                            /\ ctype # "application/octet-stream"
         THEN {ExitDefault}
    ELSE {}

(***************************************************************************)
(* JavaScript values: undefined, null, numbers and plain objects (a        *)
(* function from the object's own keys to values).                         *)
(***************************************************************************)
Undef == [t |-> "undefined"]
Null == [t |-> "null"]
Num(n) == [t |-> "number", n |-> n]
Obj(f) == [t |-> "object", f |-> f]

\* typeof v === 'object'
TypeofObject(v) == v.t \in {"object", "null"}

\* o[k] of an object
Get(o, k) == IF k \in DOMAIN o.f THEN o.f[k] ELSE Undef

\* o[k] = v
Put(o, k, v) == Obj([j \in DOMAIN o.f \cup {k} |-> IF j = k THEN v ELSE o.f[j]])

\* Object.keys: the own keys, in the order of KeyOrder
KeyOrder == <<"x", "y">>
ObjectKeys(o) == SelectSeq(KeyOrder, LAMBDA k : k \in DOMAIN o.f)

(***************************************************************************)
(* deepUpdate, lines 19-32.  The result is [threw, a]: whether a TypeError *)
(* left the call, and a as the call left it (a is updated in place).       *)
(* Object.keys(null) and (prop in null) throw a TypeError.                 *)
(***************************************************************************)
RECURSIVE deepUpdate(_, _)
RECURSIVE deepUpdateFrom(_, _, _, _)

\* the else-if of line 27
Overwrites(aProp, bProp) == aProp.t = "undefined" \/ bProp.t # "undefined"

\* the loop of lines 20-30, from the i-th key of b on
deepUpdateFrom(a, b, ks, i) ==
    IF i > Len(ks) THEN [threw |-> FALSE, a |-> a]
    ELSE IF a.t # "object" THEN [threw |-> TRUE, a |-> a]
    ELSE LET prop == ks[i]
         IN  IF /\ prop \in DOMAIN a.f
                /\ TypeofObject(b.f[prop])
                /\ TypeofObject(a.f[prop])
             THEN LET r == deepUpdate(a.f[prop], b.f[prop])
                      a2 == Put(a, prop, r.a)
                  IN  IF r.threw THEN [threw |-> TRUE, a |-> a2]
                      ELSE deepUpdateFrom(a2, b, ks, i + 1)
             ELSE IF Overwrites(Get(a, prop), b.f[prop])
             THEN deepUpdateFrom(Put(a, prop, b.f[prop]), b, ks, i + 1)
             ELSE deepUpdateFrom(a, b, ks, i + 1)

deepUpdate(a, b) ==
    IF b.t # "object" THEN [threw |-> TRUE, a |-> a]
    ELSE deepUpdateFrom(a, b, ObjectKeys(b), 1)

\* how deep the mappings nest below their top level
MaxNest == 1

TopKeys == {"x", "y"}
NestedKeys == {"x"}

Scalars(n) == {Undef, Null, Num(n)}

ObjectsOver(keys, values) ==
    {Obj(f) : f \in UNION {[S -> values] : S \in SUBSET keys}}

RECURSIVE NestedValues(_, _)
NestedValues(depth, n) ==
    IF depth = 0 THEN Scalars(n)
    ELSE Scalars(n) \cup ObjectsOver(NestedKeys, NestedValues(depth - 1, n))

\* the mappings of the model, with n their one number
Mappings(n) == ObjectsOver(TopKeys, NestedValues(MaxNest, n))

DeepIdle == da = Undef /\ db = Undef /\ da0 = Undef /\ dres = "idle"

InitDeep ==
    /\ da \in Mappings(1)
    /\ db \in Mappings(2)
    /\ da0 = da
    /\ dres = "called"

\* deepUpdate(a, b)
DeepUpdateCall ==
    /\ dres = "called"
    /\ LET r == deepUpdate(da, db)
       IN  /\ da' = r.a
           /\ dres' = (IF r.threw THEN "TypeError" ELSE "returned")
    /\ UNCHANGED <<createVars, fillVars, cloneVars, db, da0>>

NextDeep == DeepUpdateCall

(***************************************************************************)
(* fillTemplate, lines 43-62.  A string is a sequence of characters; the   *)
(* texts that string coercion produces are single tokens.                  *)
(***************************************************************************)
Str(chars) == [t |-> "string", s |-> chars]
\* a function, by what a call of it returns
Fn(ret) == [t |-> "function", ret |-> ret]

\* what String.prototype.replace makes of the replacer's result
JsString(v) ==
    CASE v.t = "string" -> v.s
      [] v.t = "number" -> << "1" >>
      [] v.t = "null" -> << "null" >>
      [] v.t = "undefined" -> << "undefined" >>
      [] v.t = "object" -> << "[object Object]" >>
      [] v.t = "function" -> << "function(){}" >>

\* the class [\s\w.] of the pattern
IsClass(c) == c \in {"a", ".", " "}
IsSpace(c) == c = " "

\* the segments of a path between its dots
RECURSIVE Split(_)
Split(path) ==
    LET dots == {i \in 1..Len(path) : path[i] = "."}
    IN  IF dots = {} THEN << path >>
        ELSE LET d == CHOOSE i \in dots : \A j \in dots : i <= j
             IN  << SubSeq(path, 1, d - 1) >> \o Split(SubSeq(path, d + 1, Len(path)))

\* get-value: the path as a key of the target, else its segments walked
\* through objects; undefined when a segment is missing
RECURSIVE Walk(_, _, _)
Walk(target, segs, i) ==
    IF i > Len(segs) THEN target
    ELSE IF target.t = "object" /\ segs[i] \in DOMAIN target.f
         THEN Walk(target.f[segs[i]], segs, i + 1)
    ELSE Undef

getValue(target, path) ==
    IF path \in DOMAIN target.f THEN target.f[path]
    ELSE Walk(target, Split(path), 1)

\* varName.replace(/\s+/g, '')
StripSpace(varName) == SelectSeq(varName, LAMBDA c : ~IsSpace(c))

\* the replacer that keeps the whitespace of the name
Replacer_KeepsSpace(fillWith, match, varName0) ==
    LET varName == varName0
        fill == getValue(fillWith, varName)
    IN  IF fill.t # "undefined"
        THEN [out |-> IF fill.t = "function" THEN JsString(fill.ret) ELSE JsString(fill),
              calls |-> <<>>]
        ELSE IF << "callback" >> \in DOMAIN fillWith.f
        THEN LET v == fillWith.f[<< "callback" >>].ret
             IN  [out |-> IF v.t # "undefined" THEN JsString(v) ELSE match,
                  calls |-> << varName >>]
        ELSE [out |-> match, calls |-> <<>>]

\* the replacer, lines 44-61: the text that replaces the match and the
\* calls of fillWith.callback it makes
Replacer(fillWith, match, varName0) ==
    LET varName == StripSpace(varName0)
        fill == getValue(fillWith, varName)
    IN  IF fill.t # "undefined"
        THEN [out |-> IF fill.t = "function" THEN JsString(fill.ret) ELSE JsString(fill),
              calls |-> <<>>]
        ELSE IF << "callback" >> \in DOMAIN fillWith.f
        THEN LET v == fillWith.f[<< "callback" >>].ret
             IN  [out |-> IF v.t # "undefined" THEN JsString(v) ELSE match,
                  calls |-> << varName >>]
        ELSE [out |-> match, calls |-> <<>>]

\* a match of /{([\s\w.]+)}/ that starts at i: the position of its closing
\* brace, 0 when there is none
MatchEnd(template, i) ==
    IF template[i] # "{" THEN 0
    ELSE LET stops == {k \in (i + 1)..(Len(template) + 1) :
                         k = Len(template) + 1 \/ ~IsClass(template[k])}
             k == CHOOSE m \in stops : \A n \in stops : m <= n
         IN  IF k > i + 1 /\ k <= Len(template) /\ template[k] = "}" THEN k ELSE 0

\* String.prototype.replace with the g flag, from position i on
RECURSIVE ReplaceFrom(_, _, _)
ReplaceFrom(template, fillWith, i) ==
    IF i > Len(template) THEN [out |-> <<>>, calls |-> <<>>]
    ELSE LET e == MatchEnd(template, i)
         IN  IF e = 0
             THEN LET rest == ReplaceFrom(template, fillWith, i + 1)
                  IN  [out |-> << template[i] >> \o rest.out, calls |-> rest.calls]
             ELSE LET r == Replacer(fillWith, SubSeq(template, i, e),
                                    SubSeq(template, i + 1, e - 1))
                      rest == ReplaceFrom(template, fillWith, e + 1)
                  IN  [out |-> r.out \o rest.out, calls |-> r.calls \o rest.calls]

fillTemplate(template, fillWith) == ReplaceFrom(template, fillWith, 1)

\* the longest template
MaxLen == 5

Alphabet == {"{", "}", "a", ".", " "}
Templates == UNION {[1..n -> Alphabet] : n \in 0..MaxLen}

\* what fillWith holds under the key a, and as its callback
FillValues ==
    {Null, Str(<< "v" >>), Fn(Str(<< "f" >>)), Fn(Undef),
     Obj([k \in {<< "a" >>} |-> Str(<< "w" >>)])}
Callbacks == {Fn(Undef), Fn(Str(<< "c" >>))}

FillWiths ==
    {Obj(f) : f \in UNION {[S -> FillValues] : S \in SUBSET {<< "a" >>}}}
    \cup {Obj([k \in DOMAIN f \cup {<< "callback" >>} |->
                 IF k = << "callback" >> THEN c ELSE f[k]]) :
            f \in UNION {[S -> FillValues] : S \in SUBSET {<< "a" >>}}, c \in Callbacks}

NoResult == [out |-> <<>>, calls |-> <<>>]

FillIdle == ft = <<>> /\ fw = Undef /\ fres = [done |-> FALSE, r |-> NoResult]

InitFill ==
    /\ ft \in Templates
    /\ fw \in FillWiths
    /\ fres = [done |-> FALSE, r |-> NoResult]

\* fillTemplate(template, fillWith)
FillTemplateCall ==
    /\ ~fres.done
    /\ fw.t = "object"
    /\ fres' = [done |-> TRUE, r |-> fillTemplate(ft, fw)]
    /\ UNCHANGED <<createVars, deepVars, cloneVars, ft, fw>>

NextFill == FillTemplateCall

(***************************************************************************)
(* clone and mixin, lines 71-151.  Objects and arrays live in a heap, a    *)
(* sequence of nodes [kind, f] addressed by position; a value is a number  *)
(* or a reference to a node.  An array's keys are its indices "0", "1".    *)
(* The outcome of a call is [st, heap, val]: st is "ok", "TypeError" or    *)
(* "diverges" (the recursion never ends).                                  *)
(***************************************************************************)
Ref(at) == [t |-> "ref", at |-> at]

\* JavaScript truthiness of a value
TruthyVal(v) == v.t = "ref" \/ (v.t = "number" /\ v.n # 0)

\* the keys for..in visits, in order
CloneKeyOrder == <<"0", "1", "2", "x", "constructor", "nodeType", "cloneNode">>
ForInKeys(node) == SelectSeq(CloneKeyOrder, LAMBDA k : k \in DOMAIN node.f)

\* the names a fresh {} or [] inherits and does not own
InEmptyObject(name) == name = "constructor"

NodeGet(node, k) == IF k \in DOMAIN node.f THEN node.f[k] ELSE Undef
NodePut(node, k, v) ==
    [kind |-> node.kind,
     f |-> [j \in DOMAIN node.f \cup {k} |-> IF j = k THEN v ELSE node.f[j]]]

Outcome(st, heap, val) == [st |-> st, heap |-> heap, val |-> val]

RECURSIVE clone(_, _, _, _)
RECURSIVE cloneElements(_, _, _, _, _, _)
RECURSIVE mixin(_, _, _, _, _, _)

\* mixin without its copyFunc: the property is assigned as it is
CopyProperty_Shallow(heap, s, depth, limit) == Outcome("ok", heap, s)

\* line 146: copyFunc(s), with copyFunc = clone
CopyProperty(heap, s, depth, limit) == clone(heap, s, depth, limit)

\* u === v
StrictEquals(u, v) == u.t = v.t /\ u = v

\* lines 141-145: whether mixin copies the property name, of value s, of
\* the source.  What {} and [] inherit are built-in functions, which no
\* value of the model equals.
MixinCopies(dest, name, s) ==
    LET inDest == name \in DOMAIN dest.f \/ InEmptyObject(name)
        destDiffers == IF name \in DOMAIN dest.f
                       THEN ~StrictEquals(dest.f[name], s) ELSE TRUE
        emptyDiffers == TRUE
    IN  ~inDest \/ (destDiffers /\ (~InEmptyObject(name) \/ emptyDiffers))

\* mixin(dest, source, clone), lines 131-151, from the i-th name of the
\* source on; r is the address of dest
mixin(heap, r, source, i, depth, limit) ==
    LET names == ForInKeys(source)
    IN  IF i > Len(names) THEN Outcome("ok", heap, Ref(r))
        ELSE LET name == names[i]
                 s == source.f[name]
             IN  IF MixinCopies(heap[r], name, s)
                 THEN LET c == CopyProperty(heap, s, depth, limit)
                      IN  IF c.st # "ok" THEN c
                          ELSE mixin([c.heap EXCEPT ![r] = NodePut(c.heap[r], name, c.val)],
                                     r, source, i + 1, depth, limit)
                 ELSE mixin(heap, r, source, i + 1, depth, limit)

\* the loop of lines 98-102, from the i-th index on
cloneElements(heap, r, source, i, depth, limit) ==
    LET names == ForInKeys(source)
    IN  IF i > Len(names) THEN Outcome("ok", heap, Ref(r))
        ELSE LET c == clone(heap, source.f[names[i]], depth, limit)
             IN  IF c.st # "ok" THEN c
                 ELSE cloneElements([c.heap EXCEPT ![r] = NodePut(c.heap[r], names[i], c.val)],
                                    r, source, i + 1, depth, limit)

\* clone(src), lines 71-112.  depth counts the calls in progress; a graph
\* of limit nodes that takes more than limit nested calls has a cycle on
\* the path, and the recursion does not end.
clone(heap, src, depth, limit) ==
    IF src.t # "ref" THEN Outcome("ok", heap, src)
    ELSE IF depth > limit THEN Outcome("diverges", heap, Undef)
    ELSE LET node == heap[src.at]
             r == Len(heap) + 1
         IN  IF /\ node.kind = "object"
                /\ TruthyVal(NodeGet(node, "nodeType"))
                /\ "cloneNode" \in DOMAIN node.f
             THEN \* src.cloneNode(true): cloneNode is not a function
                  Outcome("TypeError", heap, Undef)
             ELSE IF node.kind = "array"
             THEN LET made == cloneElements(Append(heap, [kind |-> "array", f |-> << >>]),
                                            r, node, 1, depth + 1, limit)
                  IN  IF made.st # "ok" THEN made
                      ELSE mixin(made.heap, r, node, 1, depth + 1, limit)
             ELSE IF TruthyVal(NodeGet(node, "constructor"))
             THEN \* new src.constructor(): an own constructor that is no function
                  Outcome("TypeError", heap, Undef)
             ELSE mixin(Append(heap, [kind |-> "object", f |-> << >>]),
                        r, node, 1, depth + 1, limit)

\* the nodes of the source graph
MaxNodes == 2
\* the longest array
MaxElems == 1
\* the in-place mutations after the clone
MaxMutations == 1

IndexName == <<"0", "1", "2">>

SourceValues == {Num(1)} \cup {Ref(a) : a \in 1..MaxNodes}

\* the own properties an object may have besides x
SpecialProperties ==
    { << >>,
      [k \in {"constructor"} |-> Num(1)],
      [k \in {"constructor"} |-> Num(0)],
      [k \in {"nodeType"} |-> Num(1)],
      [k \in {"nodeType", "cloneNode"} |-> Num(1)] }

ObjectNodes ==
    { [kind |-> "object",
       f |-> [k \in DOMAIN sp \cup xs |-> IF k = "x" THEN v ELSE sp[k]]] :
        sp \in SpecialProperties, xs \in SUBSET {"x"}, v \in SourceValues }

ArrayNodes ==
    UNION { { [kind |-> "array",
               f |-> [k \in {IndexName[i] : i \in 1..n} |->
                        e[CHOOSE i \in 1..n : IndexName[i] = k]]] :
                e \in [1..n -> SourceValues] } : n \in 0..MaxElems }

Heaps == [1..MaxNodes -> ObjectNodes \cup ArrayNodes]

NoOutcome == [st |-> "none", val |-> Undef]

CloneIdle ==
    /\ ch = <<>> /\ csrc = Undef /\ cres = NoOutcome /\ csrc0 = Undef
    /\ cmut = [side |-> "none", n |-> 0]

\* the nodes reachable from a value
RECURSIVE ReachFrom(_, _, _)
ReachFrom(heap, frontier, seen) ==
    IF frontier \subseteq seen THEN seen
    ELSE LET new == frontier \ seen
             RefsOf(a) == {heap[a].f[k].at : k \in {j \in DOMAIN heap[a].f :
                                                     heap[a].f[j].t = "ref"}}
         IN  ReachFrom(heap, UNION {RefsOf(a) : a \in new}, seen \cup new)

Reach(heap, v) == IF v.t = "ref" THEN ReachFrom(heap, {v.at}, {}) ELSE {}

\* the value as a tree, for an acyclic graph
RECURSIVE Unfold(_, _)
Unfold(heap, v) ==
    IF v.t # "ref" THEN v
    ELSE [t |-> heap[v.at].kind,
          f |-> [k \in DOMAIN heap[v.at].f |-> Unfold(heap, heap[v.at].f[k])]]

InitClone ==
    /\ ch \in Heaps
    /\ csrc = Ref(1)
    /\ cres = NoOutcome
    /\ csrc0 = Undef
    /\ cmut = [side |-> "none", n |-> 0]

\* clone(src)
CloneCall ==
    /\ cres.st = "none"
    /\ LET c == clone(ch, csrc, 1, Len(ch))
       IN  /\ cres' = [st |-> c.st, val |-> c.val]
           /\ ch' = c.heap
           /\ csrc0' = (IF c.st = "ok" THEN Unfold(ch, csrc) ELSE Undef)
    /\ UNCHANGED <<createVars, deepVars, fillVars, csrc, cmut>>

\* a later in-place mutation of a node of the graph of root: a[k] = 7
Mutate(root, side) ==
    /\ cres.st = "ok"
    /\ cmut.n < MaxMutations
    /\ cmut.side \in {"none", side}
    /\ \E a \in Reach(ch, root) :
         \E k \in DOMAIN ch[a].f \cup (IF ch[a].kind = "object" THEN {"x"} ELSE {"0"}) :
           ch' = [ch EXCEPT ![a] = NodePut(ch[a], k, Num(7))]
    /\ cmut' = [side |-> side, n |-> cmut.n + 1]
    /\ UNCHANGED <<createVars, deepVars, fillVars, csrc, cres, csrc0>>

MutateClone == Mutate(cres.val, "clone")
MutateSource == Mutate(csrc, "source")

NextClone ==
    \/ CloneCall
    \/ MutateClone
    \/ MutateSource

(***************************************************************************)
(* Create: the initial state.                                              *)
(***************************************************************************)
NoErr == [parse |-> FALSE, exit |-> ExitOk]
NoResponse == [got |-> FALSE, ok |-> FALSE, ctype |-> "none"]

InitCreate ==
    /\ hasPath \in BOOLEAN
    /\ force \in BOOLEAN
    /\ listVersions \in BOOLEAN
    /\ url \in UrlFlags
    /\ tag \in TagFlags
    /\ dir \in {"missing", "file", "empty", "nonempty"}
    /\ pc = "parse"
    /\ err = NoErr
    /\ exit = {}
    /\ mkdirRes = "none"
    /\ readdirRes = "none"
    /\ requests = <<>>
    /\ fetchFailed = FALSE
    /\ listing = <<>>
    /\ locationUrl = <<>>
    /\ response = NoResponse
    /\ log = <<>>
    /\ stream = "idle"
    /\ entries = <<>>
    /\ est = <<>>

CreateIdle ==
    /\ hasPath = FALSE /\ force = FALSE /\ listVersions = FALSE
    /\ url = NoFlag /\ tag = NoFlag /\ dir = "missing"
    /\ pc = "idle" /\ err = NoErr /\ exit = {}
    /\ mkdirRes = "none" /\ readdirRes = "none" /\ requests = <<>>
    /\ fetchFailed = FALSE /\ listing = <<>> /\ locationUrl = <<>>
    /\ response = NoResponse /\ log = <<>>
    /\ stream = "idle" /\ entries = <<>> /\ est = <<>>

\* an error leaves run: oclif hands it to catch
Throw(code) == pc' = "catch" /\ err' = [parse |-> FALSE, exit |-> code]

ApiRequest == [to |-> "api", url |-> ApiUrl]
ApiOutcomes == {"ok", "notok", "reject"}

\* run, lines 59-63: this.parse throws when localPath is missing
Parse ==
    /\ pc = "parse"
    /\ IF ~hasPath
       THEN pc' = "catch" /\ err' = [parse |-> TRUE, exit |-> ExitDefault]
       ELSE pc' = (IF listVersions THEN "list" ELSE "mkdir") /\ UNCHANGED err
    /\ UNCHANGED <<utilVars, hasPath, force, listVersions, url, tag, dir, exit, mkdirRes,
                   readdirRes, requests, fetchFailed, listing, locationUrl,
                   response, log, stream, entries, est>>

\* run, lines 65-75: this.exit() and every error are thrown inside the
\* try and caught by it, and this.error(error) throws again
ListVersions ==
    /\ pc = "list"
    /\ requests' = Append(requests, ApiRequest)
    /\ \E out \in ApiOutcomes :
         \/ /\ out = "ok"
            /\ \E l \in Listings :
                 /\ listing' = l
                 /\ log' = Append(log, [kind |-> "versions",
                                        tags |-> Tags(FetchGithubVersions(l))])
            /\ \E c \in {ExitOk, ExitDefault} : Throw(c)
            /\ UNCHANGED fetchFailed
         \/ /\ out # "ok"
            /\ fetchFailed' = TRUE
            /\ Throw(ExitDefault)
            /\ UNCHANGED <<listing, log>>
    /\ UNCHANGED <<utilVars, hasPath, force, listVersions, url, tag, dir, exit, mkdirRes,
                   readdirRes, locationUrl, response, stream, entries, est>>

\* run, lines 77-84: mkdir with { recursive: true }.  dir is "missing"
\* (no such path), "file" (the path is not a directory), "created" (made
\* by this mkdir, still empty), "empty" or "nonempty".
Mkdir ==
    /\ pc = "mkdir"
    /\ \E ok \in BOOLEAN :
         /\ dir \in {"created", "empty", "nonempty"} => ok
         /\ dir = "file" => ~ok
         /\ mkdirRes' = (IF ok THEN "ok" ELSE "fail")
         /\ IF ok
            THEN /\ dir' = (IF dir = "missing" THEN "created" ELSE dir)
                 /\ pc' = (IF force THEN "resolve" ELSE "check")
                 /\ UNCHANGED err
            ELSE /\ Throw(ExitDefault)
                 /\ UNCHANGED dir
    /\ UNCHANGED <<utilVars, hasPath, force, listVersions, url, tag, exit, readdirRes,
                   requests, fetchFailed, listing, locationUrl, response, log,
                   stream, entries, est>>

\* checkPath, lines 135-147
CheckPath ==
    /\ pc = "check"
    /\ \E readOk \in BOOLEAN :
         LET nFiles == IF dir = "nonempty" THEN 1 ELSE 0
             code == CheckPathExit(readOk, nFiles)
         IN  /\ readdirRes' = (IF ~readOk THEN "fail"
                             ELSE IF nFiles > 0 THEN "nonempty" ELSE "empty")
             /\ IF code = {}
                THEN pc' = "resolve" /\ UNCHANGED err
                ELSE \E c \in code : Throw(c)
    /\ UNCHANGED <<utilVars, hasPath, force, listVersions, url, tag, dir, exit, mkdirRes,
                   requests, fetchFailed, listing, locationUrl, response, log,
                   stream, entries, est>>

\* run, line 86: url || (await this.getTagOrLatest(tag))
Resolve ==
    /\ pc = "resolve"
    /\ IF Truthy(url)
       THEN /\ locationUrl' = url.val
            /\ pc' = "fetch"
            /\ UNCHANGED <<err, requests, fetchFailed, listing>>
       ELSE /\ requests' = Append(requests, ApiRequest)
            /\ \E out \in ApiOutcomes :
                 \/ /\ out = "ok"
                    /\ \E l \in Listings :
                         LET r == GetTagOrLatest(FetchGithubVersions(l), tag)
                         IN  /\ listing' = l
                             /\ IF r.ok
                                THEN /\ locationUrl' = r.url
                                     /\ pc' = "fetch"
                                     /\ UNCHANGED err
                                ELSE /\ Throw(r.exit)
                                     /\ UNCHANGED locationUrl
                    /\ UNCHANGED fetchFailed
                 \/ /\ out = "notok"
                    /\ fetchFailed' = TRUE
                    /\ Throw(ExitDefault)
                    /\ UNCHANGED <<listing, locationUrl>>
                 \/ /\ out = "reject"
                    /\ fetchFailed' = TRUE
                    /\ Throw(ExitUnhandled)
                    /\ UNCHANGED <<listing, locationUrl>>
    /\ UNCHANGED <<utilVars, hasPath, force, listVersions, url, tag, dir, exit, mkdirRes,
                   readdirRes, response, log, stream, entries, est>>

\* run, lines 88-109: the archive request, the checks of its response and
\* the start of the unzip pipeline.  The API's answer, a local of
\* fetchGithubVersions, is dropped once the pipeline runs.
FetchArchive ==
    /\ pc = "fetch"
    /\ requests' = Append(requests, [to |-> "archive", url |-> locationUrl])
    /\ \E out \in ApiOutcomes, ctype \in ContentTypes :
         \/ /\ out = "reject"
            /\ fetchFailed' = TRUE
            /\ Throw(ExitDefault)
            /\ UNCHANGED <<listing, response, stream>>
         \/ /\ out # "reject"
            /\ response' = [got |-> TRUE, ok |-> (out = "ok"), ctype |-> ctype]
            /\ fetchFailed' = (fetchFailed \/ out # "ok")
            /\ LET code == ResponseExit(out = "ok", url, ctype)
               IN  IF code # {}
                   THEN /\ \E c \in code : Throw(c)
                        /\ UNCHANGED <<listing, stream>>
                   ELSE /\ pc' = "piping"
                        /\ stream' = "open"
                        /\ listing' = <<>>
                        /\ UNCHANGED err
    /\ UNCHANGED <<utilVars, hasPath, force, listVersions, url, tag, dir, exit, mkdirRes,
                   readdirRes, locationUrl, log, entries, est>>

(***************************************************************************)
(* The unzip pipeline, lines 108-132.  The parser (unzipper) emits the     *)
(* entries in archive order and goes on to the next record once the        *)
(* entry's bytes have left it: piped into the write stream, drained, or    *)
(* held whole in the entry stream's buffer (a small entry).  An entry's    *)
(* handler is an async function: it awaits mkdir and then pipes the entry  *)
(* into a write stream, which finishes on its own later.                   *)
(*   est[i]: "mkdir"    the handler awaits mkdir of the parent directory   *)
(*           "piping"   entry.pipe(createWriteStream(..)) has run          *)
(*           "flushing" the entry's bytes are all in the write stream      *)
(*           "written"  the write stream has finished: the file is whole   *)
(*           "drained"  autodrain (not a File)                             *)
(*           "failed"   the handler threw: a rejected promise nobody holds *)
(***************************************************************************)
EntryKinds == [type : {"File", "Directory"}, small : BOOLEAN]

\* the parser cannot go on while the last entry's bytes are still in it
ParserHeld ==
    /\ Len(est) > 0
    /\ est[Len(est)] \in {"mkdir", "piping", "failed"}
    /\ ~entries[Len(est)].small

\* the 'entry' handler up to its first await, lines 110-117 and 122
OnEntry(type) == IF type = "File" THEN "mkdir" ELSE "drained"

EmitEntry ==
    /\ pc = "piping"
    /\ stream = "open"
    /\ Len(est) < MaxEntries
    /\ ~ParserHeld
    /\ \E e \in EntryKinds :
         /\ entries' = Append(entries, e)
         /\ est' = Append(est, OnEntry(e.type))
    /\ UNCHANGED <<utilVars, hasPath, force, listVersions, url, tag, dir, pc, err, exit,
                   mkdirRes, readdirRes, requests, fetchFailed, listing,
                   locationUrl, response, log, stream>>

\* the 'entry' handler after its await, lines 115-121.  this.error in the
\* catch block throws inside the async handler: the rejection is unhandled,
\* which ends the process or only warns, as the runtime has it.
EntryMkdirDone ==
    /\ pc = "piping"
    /\ \E i \in 1..Len(est) :
         /\ est[i] = "mkdir"
         /\ \/ /\ est' = [est EXCEPT ![i] = "piping"]
               /\ dir' = "nonempty"
               /\ UNCHANGED pc
            \/ /\ est' = [est EXCEPT ![i] = "failed"]
               /\ \E dies \in BOOLEAN : pc' = (IF dies THEN "crashed" ELSE pc)
               /\ UNCHANGED dir
    /\ UNCHANGED <<utilVars, hasPath, force, listVersions, url, tag, err, exit, mkdirRes,
                   readdirRes, requests, fetchFailed, listing, locationUrl,
                   response, log, stream, entries>>

\* the entry's last bytes pass into the write stream
EntryPiped ==
    /\ pc = "piping"
    /\ stream # "idle"
    /\ \E i \in 1..Len(est) :
         /\ est[i] = "piping"
         /\ est' = [est EXCEPT ![i] = "flushing"]
    /\ UNCHANGED <<utilVars, hasPath, force, listVersions, url, tag, dir, pc, err, exit,
                   mkdirRes, readdirRes, requests, fetchFailed, listing,
                   locationUrl, response, log, stream, entries>>

\* the write stream of line 118 finishes, or fails: its 'error' event has
\* no listener and ends the process
WriteDone ==
    /\ pc = "piping"
    /\ \E i \in 1..Len(est) :
         /\ est[i] = "flushing"
         /\ \/ /\ est' = [est EXCEPT ![i] = "written"]
               /\ UNCHANGED pc
            \/ /\ pc' = "crashed"
               /\ UNCHANGED est
    /\ UNCHANGED <<utilVars, hasPath, force, listVersions, url, tag, dir, err, exit,
                   mkdirRes, readdirRes, requests, fetchFailed, listing,
                   locationUrl, response, log, stream, entries>>

\* the 'error' handler, lines 124-129: this.error throws out of the
\* listener, an uncaught exception
StreamError ==
    /\ pc = "piping"
    /\ stream = "open"
    /\ stream' = "errored"
    /\ pc' = "crashed"
    /\ UNCHANGED <<utilVars, hasPath, force, listVersions, url, tag, dir, err, exit,
                   mkdirRes, readdirRes, requests, fetchFailed, listing,
                   locationUrl, response, log, entries, est>>

Created == [kind |-> "created", tags |-> <<>>]

\* the 'close' handler, lines 130-132
StreamClose ==
    /\ pc = "piping"
    /\ stream = "open"
    /\ ~ParserHeld
    /\ stream' = "closed"
    /\ log' = Append(log, Created)
    /\ UNCHANGED <<utilVars, hasPath, force, listVersions, url, tag, dir, pc, err, exit,
                   mkdirRes, readdirRes, requests, fetchFailed, listing,
                   locationUrl, response, entries, est>>

\* catch, lines 186-195, and oclif's exit with the error's code
Catch ==
    /\ pc = "catch"
    /\ pc' = "exited"
    /\ IF err.parse /\ listVersions
       THEN /\ requests' = Append(requests, ApiRequest)
            /\ \E out \in ApiOutcomes :
                 \/ /\ out = "ok"
                    /\ \E l \in Listings :
                         /\ listing' = l
                         /\ log' = Append(log, [kind |-> "versions",
                                                tags |-> Tags(FetchGithubVersions(l))])
                    /\ exit' = {ExitOk}
                    /\ UNCHANGED fetchFailed
                 \/ /\ out = "notok"
                    /\ fetchFailed' = TRUE
                    /\ exit' = {ExitDefault}
                    /\ UNCHANGED <<listing, log>>
                 \/ /\ out = "reject"
                    /\ fetchFailed' = TRUE
                    /\ exit' = {ExitUnhandled}
                    /\ UNCHANGED <<listing, log>>
       ELSE /\ exit' = {err.exit}
            /\ UNCHANGED <<requests, fetchFailed, listing, log>>
    /\ UNCHANGED <<utilVars, hasPath, force, listVersions, url, tag, dir, err, mkdirRes,
                   readdirRes, locationUrl, response, stream, entries, est>>

NextCreate ==
    \/ Parse
    \/ ListVersions
    \/ Mkdir
    \/ CheckPath
    \/ Resolve
    \/ FetchArchive
    \/ EmitEntry
    \/ EntryMkdirDone
    \/ EntryPiped
    \/ WriteDone
    \/ StreamError
    \/ StreamClose
    \/ Catch

Init == InitCreate /\ DeepIdle /\ FillIdle /\ CloneIdle

Spec == Init /\ [][NextCreate]_vars

InitDeepUpdate == CreateIdle /\ InitDeep /\ FillIdle /\ CloneIdle

SpecDeep == InitDeepUpdate /\ [][NextDeep]_vars

InitFillTemplate == CreateIdle /\ DeepIdle /\ InitFill /\ CloneIdle

SpecFill == InitFillTemplate /\ [][NextFill]_vars

InitCloneCall == CreateIdle /\ DeepIdle /\ FillIdle /\ InitClone

SpecClone == InitCloneCall /\ [][NextClone]_vars

(***************************************************************************)
(* Properties of Create.                                                   *)
(***************************************************************************)
\* the command is terminating with an error of this exit code
ExitsWith(code) ==
    \/ pc = "catch" /\ ~err.parse /\ err.exit = code
    \/ pc = "exited" /\ exit = {code}

Terminating == pc \in {"catch", "exited"}

NoArchiveRequest == \A i \in 1..Len(requests) : requests[i].to # "archive"
NoApiRequest == \A i \in 1..Len(requests) : requests[i].to # "api"

\* C1: with --listVersions and --force unset, when the directory holds an
\* entry at the time of the check the command terminates with exit code 10,
\* before any network request and before any archive entry is written.
C1_NonEmptyExits10 ==
    (~listVersions /\ ~force /\ readdirRes = "nonempty")
        => /\ ExitsWith(ExitNonEmpty)
           /\ requests = <<>>
           /\ est = <<>>
           /\ stream = "idle"

C1_Witness ==
    /\ pc = "exited" /\ exit = {ExitNonEmpty}
    /\ ~listVersions /\ ~force /\ readdirRes = "nonempty" /\ dir = "nonempty"

\* the install path did not exist as a directory when run started
PathWasMissing == dir \in {"missing", "file", "created"}

\* C2 (as claimed): without --force, on a path that does not exist as a
\* directory, the command terminates with exit code 20 whether the initial
\* mkdir succeeds or fails.
C2_MissingExits20 ==
    (hasPath /\ ~listVersions /\ ~force /\ PathWasMissing /\ mkdirRes # "none")
        => ((readdirRes # "none" \/ mkdirRes = "fail") => ExitsWith(ExitNoDirectory))

\* C2 (amended): on such a path, a failed mkdir terminates the command with
\* the default error code and not 20; a successful mkdir creates the
\* directory, and then the command exits with 20 exactly when the readdir of
\* checkPath fails, and otherwise finds it empty and goes on without exit
\* 10 or 20.
C2_MissingCreated ==
    (hasPath /\ ~listVersions /\ ~force /\ PathWasMissing /\ mkdirRes # "none")
        => /\ mkdirRes = "fail"
                => ExitsWith(ExitDefault) /\ dir # "created" /\ readdirRes = "none"
           /\ mkdirRes = "ok"
                => /\ dir = "created"
                   /\ ExitsWith(ExitNoDirectory) <=> readdirRes = "fail"
                   /\ readdirRes \in {"none", "fail", "empty"}
                   /\ ~ExitsWith(ExitNonEmpty)
                   /\ readdirRes = "empty" => pc # "check"

C2_Witness ==
    /\ hasPath /\ ~listVersions /\ ~force
    /\ dir = "created" /\ mkdirRes = "ok" /\ readdirRes = "empty" /\ pc = "fetch"

\* C3: every network fetch failure terminates the command with exit code 50.
C3_FetchFailureExits50 ==
    (hasPath /\ fetchFailed /\ Terminating) => ExitsWith(ExitFetchFailed) /\ Len(requests) <= 2

\* the releases a tag is looked up in, as positions of the API's listing:
\* the non-prerelease jbrowse-web releases if there is one, else all of it
Eligible(l) ==
    LET stable == {i \in 1..Len(l) :
                     StartsWith(l[i].tag_name, WebPrefix) /\ ~l[i].prerelease}
    IN  IF stable = {} THEN 1..Len(l) ELSE stable

Matching(l, t) == {i \in Eligible(l) : Truthy(t) => l[i].tag_name = t.val}

ApiAnswered == requests = <<ApiRequest>> /\ ~fetchFailed

\* C4 (as claimed): a --tag naming any release of the API's listing always
\* resolves and never yields exit code 40.
C4_ListedTagResolves ==
    (~listVersions /\ Truthy(tag)
       /\ \E i \in 1..Len(listing) : listing[i].tag_name = tag.val)
        => ~ExitsWith(ExitNoVersion)

\* C4 (amended): the download URL is a non-empty --url if given, and then
\* the API is not called; otherwise it is the first asset of the first
\* release, among those fetchGithubVersions returns (the non-prerelease
\* jbrowse-web releases if there is one, else the whole listing), whose
\* tag_name is --tag, or of the first of them when --tag is absent or
\* empty.  Exit code 40 arises exactly when --url is absent or empty, the
\* API answered and no such release is among them.
C4_Resolution ==
    /\ (pc = "fetch" /\ Truthy(url))
         => locationUrl = url.val /\ requests = <<>>
    /\ (pc = "fetch" /\ ~Truthy(url))
         => /\ ApiAnswered
            /\ Matching(listing, tag) # {}
            /\ \E i \in Matching(listing, tag) :
                 /\ \A j \in Matching(listing, tag) : i <= j
                 /\ locationUrl = listing[i].assets[1].browser_download_url
    /\ ~listVersions
         => (ExitsWith(ExitNoVersion)
               <=> (Terminating /\ ~Truthy(url) /\ ApiAnswered
                      /\ Matching(listing, tag) = {}))

C4_Witness ==
    /\ pc = "exited" /\ exit = {ExitNoVersion}
    /\ Truthy(tag)
    /\ \E i \in 1..Len(listing) : listing[i].tag_name = tag.val /\ listing[i].prerelease

WrongType == response.got /\ response.ok /\ response.ctype \notin ZipTypes

\* C5 (as claimed): an ok archive response of another content type
\* terminates the command with an error before any entry is extracted,
\* wherever the download URL came from.
C5_WrongTypeExits ==
    WrongType => Terminating /\ est = <<>> /\ stream = "idle"

\* C5 (amended): it does so, with the default error code, when the URL is
\* a non-empty --url; when the URL came from release or tag resolution the
\* content type is not looked at and the unzip pipeline starts.
C5_WrongTypeOfUrlExits ==
    WrongType
        => IF Truthy(url)
           THEN ExitsWith(ExitDefault) /\ est = <<>> /\ stream = "idle" /\ NoApiRequest
           ELSE ~Terminating /\ stream # "idle" /\ ~NoApiRequest

C5_Witness ==
    /\ WrongType /\ Truthy(url) /\ pc = "exited" /\ exit = {ExitDefault}
    /\ dir \in {"created", "empty"}

VersionsLogged == \E i \in 1..Len(log) : log[i].kind = "versions"

\* C9: with --listVersions the command logs the tag names and terminates
\* without creating or checking the install directory and without an
\* archive request or extraction, in run and in catch; every tag name
\* listed starts with '@gmod/jbrowse-web'.
C9_ListVersionsOnlyLists ==
    /\ listVersions
         => /\ mkdirRes = "none" /\ readdirRes = "none" /\ dir # "created"
            /\ NoArchiveRequest /\ stream = "idle" /\ est = <<>>
            /\ VersionsLogged => Terminating
    /\ \A i \in 1..Len(log) :
         \A j \in 1..Len(log[i].tags) : StartsWith(log[i].tags[j], WebPrefix)

SuccessLogged == \E i \in 1..Len(log) : log[i] = Created

\* C10: the success message is logged only after every File entry of the
\* archive is completely written, and never in a run in which the stream
\* reported an error or an entry handler failed.
C10_SuccessAfterAllWritten ==
    SuccessLogged
        => /\ \A i \in 1..Len(est) : entries[i].type = "File" => est[i] = "written"
           /\ stream # "errored"

(***************************************************************************)
(* Properties of deepUpdate.                                               *)
(***************************************************************************)
IsMapping(v) == v.t = "object"

\* the recursive merge of b onto a, key by key
RECURSIVE Merge(_, _)
Merge(a, b) ==
    Obj([k \in DOMAIN a.f \cup DOMAIN b.f |->
           IF k \notin DOMAIN b.f THEN a.f[k]
           ELSE IF k \in DOMAIN a.f /\ IsMapping(a.f[k]) /\ IsMapping(b.f[k])
                THEN Merge(a.f[k], b.f[k])
           ELSE IF b.f[k].t # "undefined" \/ Get(a, k).t = "undefined"
                THEN b.f[k]
           ELSE a.f[k]])

\* C6: deepUpdate(a, b) returns a, updated in place to the recursive merge
\* of b onto a, for all nested mappings, null values included.
C6_DeepUpdateMerges ==
    dres # "called" => dres = "returned" /\ da = Merge(da0, db)

RECURSIVE HasNull(_)
HasNull(v) ==
    \/ v.t = "null"
    \/ v.t = "object" /\ \E k \in DOMAIN v.f : HasNull(v.f[k])

\* without a null on either side the call returns the merge
DeepUpdateMergesWithoutNull ==
    (dres # "called" /\ ~HasNull(da0) /\ ~HasNull(db))
        => dres = "returned" /\ da = Merge(da0, db)

(***************************************************************************)
(* Properties of fillTemplate.                                             *)
(***************************************************************************)
\* a placeholder {name} lies at i..j: braces around one or more characters
\* of the class
PlaceholderAt(t, i, j) ==
    /\ t[i] = "{" /\ t[j] = "}" /\ j > i + 1
    /\ \A k \in (i + 1)..(j - 1) : IsClass(t[k])

PlaceholderStarts(t) == {i \in 1..Len(t) : \E j \in 1..Len(t) : PlaceholderAt(t, i, j)}
PlaceholderEnd(t, i) == CHOOSE j \in 1..Len(t) : PlaceholderAt(t, i, j)
PlaceholderName(t, i) == StripSpace(SubSeq(t, i + 1, PlaceholderEnd(t, i) - 1))

HasCallback(fillWith) == << "callback" >> \in DOMAIN fillWith.f
Resolves(fillWith, name) == getValue(fillWith, name).t # "undefined"

\* what the claim puts in the place of the placeholder at i
Filled(t, fillWith, i) ==
    LET name == PlaceholderName(t, i)
        v == getValue(fillWith, name)
    IN  IF Resolves(fillWith, name)
        THEN IF v.t = "function" THEN JsString(v.ret) ELSE JsString(v)
        ELSE IF HasCallback(fillWith) /\ fillWith.f[<< "callback" >>].ret.t # "undefined"
        THEN JsString(fillWith.f[<< "callback" >>].ret)
        ELSE SubSeq(t, i, PlaceholderEnd(t, i))

\* what position i of the template gives to the output
Piece(t, fillWith, i) ==
    IF i \in PlaceholderStarts(t) THEN Filled(t, fillWith, i)
    ELSE IF \E s \in PlaceholderStarts(t) : s < i /\ i <= PlaceholderEnd(t, s) THEN <<>>
    ELSE << t[i] >>

RECURSIVE Pieces(_, _, _)
Pieces(t, fillWith, i) ==
    IF i > Len(t) THEN <<>> ELSE Piece(t, fillWith, i) \o Pieces(t, fillWith, i + 1)

\* the names the callback is to be called with, in order
RECURSIVE Unresolved(_, _, _)
Unresolved(t, fillWith, i) ==
    IF i > Len(t) THEN <<>>
    ELSE (IF i \in PlaceholderStarts(t) /\ ~Resolves(fillWith, PlaceholderName(t, i))
          THEN << PlaceholderName(t, i) >> ELSE <<>>) \o Unresolved(t, fillWith, i + 1)

C7_WitnessUnresolved ==
    /\ fres.done
    /\ ft = << "{", "a", ".", "a", "}" >>
    /\ HasCallback(fw)
    /\ fres.r.calls = << << "a", ".", "a" >> >>
    /\ fres.r.out = ft

(***************************************************************************)
(* Properties of clone.                                                    *)
(***************************************************************************)
\* a node lies on a cycle of the graph of v
Cyclic(heap, v) ==
    \E a \in Reach(heap, v) :
      \E k \in DOMAIN heap[a].f : a \in Reach(heap, heap[a].f[k])

\* no object of the graph has an own truthy constructor, or an own truthy
\* nodeType together with cloneNode
OrdinaryKeys(heap, v) ==
    \A a \in Reach(heap, v) :
      /\ ~TruthyVal(NodeGet(heap[a], "constructor"))
      /\ ~(TruthyVal(NodeGet(heap[a], "nodeType")) /\ "cloneNode" \in DOMAIN heap[a].f)

\* the clone equals the source and shares no node with it, and a mutation
\* of one has left the other as it was
CloneIsDeepCopy ==
    /\ cres.st = "ok"
    /\ Reach(ch, cres.val) \cap Reach(ch, csrc) = {}
    /\ cmut.side = "none" => Unfold(ch, cres.val) = csrc0 /\ Unfold(ch, csrc) = csrc0
    /\ cmut.side = "clone" => Unfold(ch, csrc) = csrc0 /\ Unfold(ch, cres.val) # csrc0
    /\ cmut.side = "source" => Unfold(ch, cres.val) = csrc0 /\ Unfold(ch, csrc) # csrc0

\* C8 (as claimed): for every acyclic graph of plain objects, arrays and
\* scalars clone returns an equal value that shares nothing with the
\* source, so that a later mutation of one leaves the other unchanged; on
\* a cyclic graph clone does not terminate.
C8_CloneDeepCopies ==
    cres.st # "none"
        => IF Cyclic(ch, csrc) THEN cres.st = "diverges" ELSE CloneIsDeepCopy

\* C8 (amended): the same, for the graphs none of whose objects has an own
\* truthy constructor property, or an own truthy nodeType together with a
\* cloneNode property.
C8_CloneDeepCopiesOrdinary ==
    (cres.st # "none" /\ OrdinaryKeys(ch, csrc))
        => IF Cyclic(ch, csrc) THEN cres.st = "diverges" ELSE CloneIsDeepCopy

\* an array that holds an object has been cloned and the clone mutated
C8_Witness ==
    /\ cres.st = "ok" /\ cmut.side = "clone"
    /\ ch[1].kind = "array" /\ NodeGet(ch[1], "0") = Ref(2)
    /\ ch[2].kind = "object" /\ DOMAIN ch[2].f = {"x", "constructor"}
    /\ Unfold(ch, cres.val) # csrc0 /\ Unfold(ch, csrc) = csrc0

\* clone has been called on a cyclic graph
C8_WitnessCyclic ==
    /\ cres.st = "diverges" /\ Cyclic(ch, csrc) /\ OrdinaryKeys(ch, csrc)
    /\ NodeGet(ch[1], "x") = Ref(2) /\ ch[2].kind = "array"

====
